---- MODULE Spec2Model ----
(***************************************************************************)
(* Package reconcile of sevki/x (src/source/source.go, lines 56-193):      *)
(* Reconcile(current, desired, verbose) = fix(current, diff(current,       *)
(* desired), verbose) over two caller-supplied State stores.               *)
(*                                                                         *)
(* The model runs the two calls Reconcile(current, desired, TRUE) and      *)
(* Reconcile(current, desired, FALSE) side by side on equal copies of the  *)
(* same inputs: every variable is a function of the verbose flag of the    *)
(* call it belongs to.  The stores make the same choices in both calls     *)
(* (walk order, which mutation faults).                                    *)
(***************************************************************************)
EXTENDS Integers, Sequences, FiniteSets, TLC

\* The keys the stores may hold (Go strings; three distinct ones).
Keys == {1, 2, 3}

\* The two stores hold at most this many entries together.
MaxEntries == 3

\* Reconcile is called at most this many times in succession.
MaxPasses == 2

\* The two values of the verbose parameter: one call each.
Verbose == BOOLEAN

(***************************************************************************)
(* Values (interface{}).  kind "nil" is the nil interface, "plain" a value *)
(* without a Sum method, "sum" a value that implements Checksumed.  buf is *)
(* the backing array of the slice Sum() returns and len its length, so     *)
(* cap(Sum()) = Len(buf).                                                  *)
(***************************************************************************)
Nil == [kind |-> "nil", body |-> 0, buf |-> <<>>, len |-> 0]

Plain(b) == [kind |-> "plain", body |-> b, buf |-> <<>>, len |-> 0]

Summed(b, buf, n) == [kind |-> "sum", body |-> b, buf |-> buf, len |-> n]

\* nil, a value without checksum, two values with 5-byte checksums that
\* differ, and one with a 1-byte checksum.
Values ==
  { Nil, Plain(1),
    Summed(1, <<1, 2, 3, 4, 5>>, 5),
    Summed(2, <<1, 2, 3, 4, 6>>, 5),
    Summed(3, <<7>>, 1) }

\* A store: the entries a State holds, as a function from the stored keys.
Stores == UNION { [D -> Values] : D \in SUBSET Keys }

\* current, desired: the two stores.  cur0: current as it was when the call
\* started; orig: current as it was before the first call.  pass: number of
\* the call.  pc, todo, updates, idx: where the call is, the entries its Walk
\* still has to visit, diff's list, fix's loop index.  log: what the call did.
VARIABLES current, desired, cur0, orig, pass, pc, todo, updates, idx, log

\* One call of compare on its own: its two arguments and how it ended.
VARIABLES argA, argB, ret

\* Two calls of Reconcile on one current, started by a caller that may guard
\* each whole call with a lock.  guarded: whether the caller does; holder: the
\* calls that hold the lock; ended: the calls that have ended, in that order.
VARIABLES guarded, holder, ended

vars ==
  <<current, desired, cur0, orig, pass, pc, todo, updates, idx, log,
    argA, argB, ret, guarded, holder, ended>>

(***************************************************************************)
(* State interface.  The source declares the methods only; these are the   *)
(* methods of a store that reflects every mutation at once.  A store may   *)
(* hold a nil value: Get then returns nil as it does for a missing key.    *)
(***************************************************************************)
Get(s, key) == IF key \in DOMAIN s THEN s[key] ELSE Nil

Add(s, key, v) == [x \in DOMAIN s \cup {key} |-> IF x = key THEN v ELSE s[x]]

Update(s, key, v) == [x \in DOMAIN s \cup {key} |-> IF x = key THEN v ELSE s[x]]

Delete(s, key) == [x \in DOMAIN s \ {key} |-> s[x]]

\* type state, and its constants new, old, dirty
new == 0

old == 1

dirty == 2

\* A String whose switch has lost its case 2.
StringNoUpdate(i) ==
  CASE i = 0 -> "Add"
    [] i = 1 -> "Delete"
    [] OTHER -> ""

\* func (i state) String() string
String(i) ==
  CASE i = 0 -> "Add"
    [] i = 1 -> "Delete"
    [] i = 2 -> "Update"
    [] OTHER -> ""

\* Length of the checksum prefix that compare prints (desiredSum[:5]).
SumPrefixLen == 5

\* errors: a nil error, and the two kinds of mismatch
NilError == [fmt |-> "", args |-> <<>>]

ErrDeepEqualMismatch == [fmt |-> "reflect.Deepequal mismatch", args |-> <<>>]

\* a.(Checksumed)
IsChecksumed(a) == a.kind = "sum"

\* hashable.Sum(): the first len bytes of the backing array
Sum(a) == SubSeq(a.buf, 1, a.len)

\* reflect.DeepEqual(a, b)
DeepEqual(a, b) == a = b

\* A compare whose checksum test is the wrong way round.
compareEqualSumsMismatch(a, b) ==
  IF IsChecksumed(a) /\ IsChecksumed(b)
  THEN IF Sum(a) = Sum(b)
       THEN IF Len(a.buf) < SumPrefixLen \/ Len(b.buf) < SumPrefixLen
            THEN [panic |-> TRUE, err |-> NilError]
            ELSE [panic |-> FALSE,
                  err |-> [fmt |-> "%v sum=%x != %v sum=%x",
                           args |-> <<a, SubSeq(a.buf, 1, SumPrefixLen),
                                      b, SubSeq(b.buf, 1, SumPrefixLen)>>]]
       ELSE [panic |-> FALSE, err |-> NilError]
  ELSE IF ~DeepEqual(a, b)
       THEN [panic |-> FALSE, err |-> ErrDeepEqualMismatch]
       ELSE [panic |-> FALSE, err |-> NilError]

(***************************************************************************)
(* compare(a, b).  The result is [panic, err]: s[:5] panics (slice bounds  *)
(* out of range) when cap(s) < 5, and otherwise is the first 5 bytes of    *)
(* the backing array.                                                      *)
(***************************************************************************)
compare(a, b) ==
  IF IsChecksumed(a) /\ IsChecksumed(b)
  THEN IF Sum(a) # Sum(b)
       THEN IF Len(a.buf) < SumPrefixLen \/ Len(b.buf) < SumPrefixLen
            THEN [panic |-> TRUE, err |-> NilError]
            ELSE [panic |-> FALSE,
                  err |-> [fmt |-> "%v sum=%x != %v sum=%x",
                           args |-> <<a, SubSeq(a.buf, 1, SumPrefixLen),
                                      b, SubSeq(b.buf, 1, SumPrefixLen)>>]]
       ELSE [panic |-> FALSE, err |-> NilError]
  ELSE IF ~DeepEqual(a, b)
       THEN [panic |-> FALSE, err |-> ErrDeepEqualMismatch]
       ELSE [panic |-> FALSE, err |-> NilError]

\* The checksums compare computes: both when both values have one, none
\* otherwise (the Sum calls are inside the branch aok && bok).
compareSums(a, b) ==
  IF IsChecksumed(a) /\ IsChecksumed(b) THEN <<Sum(a), Sum(b)>> ELSE <<>>

\* A list built back to front.
PrependUpdate(us, n) == <<n>> \o us

\* updates = append(updates, n)
AppendUpdate(us, n) == Append(us, n)

\* One call of Reconcile: its stores, its position and its locals.
Call(vb) ==
  [current |-> current[vb], desired |-> desired[vb], cur0 |-> cur0[vb],
   orig |-> orig[vb], pass |-> pass[vb], pc |-> pc[vb], todo |-> todo[vb],
   updates |-> updates[vb], idx |-> idx[vb], log |-> log[vb]]

InstallCalls(r) ==
  /\ current' = [vb \in Verbose |-> r[vb].current]
  /\ desired' = [vb \in Verbose |-> r[vb].desired]
  /\ cur0' = [vb \in Verbose |-> r[vb].cur0]
  /\ orig' = [vb \in Verbose |-> r[vb].orig]
  /\ pass' = [vb \in Verbose |-> r[vb].pass]
  /\ pc' = [vb \in Verbose |-> r[vb].pc]
  /\ todo' = [vb \in Verbose |-> r[vb].todo]
  /\ updates' = [vb \in Verbose |-> r[vb].updates]
  /\ idx' = [vb \in Verbose |-> r[vb].idx]
  /\ log' = [vb \in Verbose |-> r[vb].log]

\* A step of the two calls that run side by side: nothing else moves.
Install(r) ==
  /\ InstallCalls(r)
  /\ UNCHANGED <<argA, argB, ret, guarded, holder, ended>>

\* compare has not been called.
NotCalled == [called |-> FALSE, panic |-> FALSE, err |-> NilError, sums |-> <<>>]

\* Events of a call, in the order they happen.  A mutation: the method, the
\* store, the arguments and whether the store carried it out.
CallEvent(op, on, key, v, ok) ==
  [op |-> op, on |-> on, key |-> key, v |-> v, ok |-> ok]

\* A Walk or a Get: the method and the store it is called on.  Also a call
\* of compare, on two values.
ReadEvent(op, on) == [op |-> op, on |-> on]

TraceEvent(key, label, why) ==
  [op |-> "Printf", on |-> "log", key |-> key, state |-> label, why |-> why]

\* A callback that takes an entry of current for present whatever its value.
VisitDesiredByPresence(c, key) ==
  IF ~(c.pc = "walkDesired" /\ key \in c.todo) THEN c
  ELSE
    LET v == c.desired[key]
        currentValue == Get(c.current, key)
        seen == [c EXCEPT !.todo = c.todo \ {key},
                          !.log = Append(c.log,
                                    ReadEvent("Get", "current"))]
    IN IF key \notin DOMAIN c.current
       THEN [seen EXCEPT !.updates = AppendUpdate(c.updates,
               [key |-> key, v |-> v, state |-> new,
                why |-> [fmt |-> "current state doesn't have %s doesn't exist",
                         args |-> <<key>>]])]
       ELSE LET r == compare(currentValue, v)
                compared == [seen EXCEPT !.log = Append(seen.log,
                                           ReadEvent("compare", "values"))]
            IN IF r.panic
               THEN [compared EXCEPT !.pc = "panic"]
               ELSE IF r.err # NilError
                    THEN [compared EXCEPT !.updates = AppendUpdate(c.updates,
                            [key |-> key, v |-> v, state |-> dirty, why |-> r.err])]
                    ELSE compared

(***************************************************************************)
(* diff, first walk: the callback desired.Walk runs for one entry.         *)
(***************************************************************************)
VisitDesired(c, key) ==
  IF ~(c.pc = "walkDesired" /\ key \in c.todo) THEN c
  ELSE
    LET v == c.desired[key]
        currentValue == Get(c.current, key)
        seen == [c EXCEPT !.todo = c.todo \ {key},
                          !.log = Append(c.log,
                                    ReadEvent("Get", "current"))]
    IN IF currentValue = Nil
       THEN [seen EXCEPT !.updates = AppendUpdate(c.updates,
               [key |-> key, v |-> v, state |-> new,
                why |-> [fmt |-> "current state doesn't have %s doesn't exist",
                         args |-> <<key>>]])]
       ELSE LET r == compare(currentValue, v)
                compared == [seen EXCEPT !.log = Append(seen.log,
                                           ReadEvent("compare", "values"))]
            IN IF r.panic
               THEN [compared EXCEPT !.pc = "panic"]
               ELSE IF r.err # NilError
                    THEN [compared EXCEPT !.updates = AppendUpdate(c.updates,
                            [key |-> key, v |-> v, state |-> dirty, why |-> r.err])]
                    ELSE compared

\* desired.Walk has visited every entry; current.Walk starts.
EndWalkDesired(c) ==
  IF ~(c.pc = "walkDesired" /\ c.todo = {}) THEN c
  ELSE [c EXCEPT !.pc = "walkCurrent", !.todo = DOMAIN c.current,
                 !.log = Append(c.log, ReadEvent("Walk", "current"))]

\* A callback that marks every entry of current for deletion.
VisitCurrentAlwaysDeletes(c, key) ==
  IF ~(c.pc = "walkCurrent" /\ key \in c.todo) THEN c
  ELSE [c EXCEPT !.todo = c.todo \ {key},
                 !.log = Append(c.log, ReadEvent("Get", "desired")),
                 !.updates = AppendUpdate(c.updates,
                   [key |-> key, v |-> Nil, state |-> old,
                    why |-> [fmt |-> "currentValue is with key %s marked for deletion",
                             args |-> <<key>>]])]

\* A callback that deletes the entry while current.Walk is still running.
VisitCurrentDeletesNow(c, key) ==
  IF ~(c.pc = "walkCurrent" /\ key \in c.todo) THEN c
  ELSE
    LET desiredValue == Get(c.desired, key)
        seen == [c EXCEPT !.todo = c.todo \ {key},
                          !.log = Append(c.log,
                                    ReadEvent("Get", "desired"))]
    IN IF desiredValue = Nil
       THEN [seen EXCEPT !.current = Delete(c.current, key),
                         !.log = Append(seen.log,
                                   CallEvent("Delete", "current", key, Nil, TRUE))]
       ELSE seen

(***************************************************************************)
(* diff, second walk: the callback current.Walk runs for one entry.        *)
(***************************************************************************)
VisitCurrent(c, key) ==
  IF ~(c.pc = "walkCurrent" /\ key \in c.todo) THEN c
  ELSE
    LET desiredValue == Get(c.desired, key)
        seen == [c EXCEPT !.todo = c.todo \ {key},
                          !.log = Append(c.log,
                                    ReadEvent("Get", "desired"))]
    IN IF desiredValue = Nil
       THEN [seen EXCEPT !.updates = AppendUpdate(c.updates,
               [key |-> key, v |-> Nil, state |-> old,
                why |-> [fmt |-> "currentValue is with key %s marked for deletion",
                         args |-> <<key>>]])]
       ELSE seen

\* diff returns updates; fix starts its loop.
EndWalkCurrent(c) ==
  IF ~(c.pc = "walkCurrent" /\ c.todo = {}) THEN c
  ELSE [c EXCEPT !.pc = "fix", !.idx = 1]

(***************************************************************************)
(* fix: one iteration of the loop over updates.  fault says whether the    *)
(* store's mutation method fails (panics) when it is called.               *)
(***************************************************************************)
\* if verbose { log.Printf(...) }
LogLine(c, verbose) ==
  LET update == c.updates[c.idx]
  IN IF verbose
     THEN [c EXCEPT !.log = Append(c.log,
             TraceEvent(update.key, String(update.state), update.why))]
     ELSE c

\* A switch that has lost its case dirty.
DispatchNoUpdate(c, fault) ==
  LET update == c.updates[c.idx]
  IN CASE update.state = new ->
            IF fault
            THEN [c EXCEPT !.pc = "fault", !.log = Append(c.log,
                    CallEvent("Add", "current", update.key, update.v, FALSE))]
            ELSE [c EXCEPT !.current = Add(c.current, update.key, update.v),
                           !.log = Append(c.log,
                    CallEvent("Add", "current", update.key, update.v, TRUE))]
       [] update.state = old ->
            IF fault
            THEN [c EXCEPT !.pc = "fault", !.log = Append(c.log,
                    CallEvent("Delete", "current", update.key, Nil, FALSE))]
            ELSE [c EXCEPT !.current = Delete(c.current, update.key),
                           !.log = Append(c.log,
                    CallEvent("Delete", "current", update.key, Nil, TRUE))]
       [] OTHER -> c

\* switch update.state: the mutation of current for one update
Dispatch(c, fault) ==
  LET update == c.updates[c.idx]
  IN CASE update.state = new ->
            IF fault
            THEN [c EXCEPT !.pc = "fault", !.log = Append(c.log,
                    CallEvent("Add", "current", update.key, update.v, FALSE))]
            ELSE [c EXCEPT !.current = Add(c.current, update.key, update.v),
                           !.log = Append(c.log,
                    CallEvent("Add", "current", update.key, update.v, TRUE))]
       [] update.state = old ->
            IF fault
            THEN [c EXCEPT !.pc = "fault", !.log = Append(c.log,
                    CallEvent("Delete", "current", update.key, Nil, FALSE))]
            ELSE [c EXCEPT !.current = Delete(c.current, update.key),
                           !.log = Append(c.log,
                    CallEvent("Delete", "current", update.key, Nil, TRUE))]
       [] update.state = dirty ->
            IF fault
            THEN [c EXCEPT !.pc = "fault", !.log = Append(c.log,
                    CallEvent("Update", "current", update.key, update.v, FALSE))]
            ELSE [c EXCEPT !.current = Update(c.current, update.key, update.v),
                           !.log = Append(c.log,
                    CallEvent("Update", "current", update.key, update.v, TRUE))]
       [] OTHER -> c

\* A loop that recovers from the store's fault and goes on.
FixStepRecovers(c, verbose, fault) ==
  IF ~(c.pc = "fix" /\ c.idx <= Len(c.updates)) THEN c
  ELSE [Dispatch(LogLine(c, verbose), fault) EXCEPT !.pc = "fix", !.idx = c.idx + 1]

\* A loop that writes the trace line after the mutation.
FixStepLogsAfter(c, verbose, fault) ==
  IF ~(c.pc = "fix" /\ c.idx <= Len(c.updates)) THEN c
  ELSE LET d == LogLine(Dispatch(c, fault), verbose)
       IN IF d.pc = "fault" THEN d ELSE [d EXCEPT !.idx = c.idx + 1]

\* A loop whose verbose branch goes on to the next update.
FixStepVerboseSkips(c, verbose, fault) ==
  IF ~(c.pc = "fix" /\ c.idx <= Len(c.updates)) THEN c
  ELSE IF verbose
       THEN [LogLine(c, verbose) EXCEPT !.idx = c.idx + 1]
       ELSE LET d == Dispatch(c, fault)
            IN IF d.pc = "fault" THEN d ELSE [d EXCEPT !.idx = c.idx + 1]

\* for _, update := range updates { ... }: one iteration
FixStep(c, verbose, fault) ==
  IF ~(c.pc = "fix" /\ c.idx <= Len(c.updates)) THEN c
  ELSE LET d == Dispatch(LogLine(c, verbose), fault)
       IN IF d.pc = "fault" THEN d ELSE [d EXCEPT !.idx = c.idx + 1]

\* A Reconcile that goes back to diff until current is desired.
ReturnWhenConverged(c) ==
  IF ~(c.pc = "fix" /\ c.idx > Len(c.updates)) THEN c
  ELSE IF c.current = c.desired
       THEN [c EXCEPT !.pc = "done"]
       ELSE [c EXCEPT !.pc = "walkDesired", !.todo = DOMAIN c.desired,
                      !.updates = <<>>, !.idx = 0,
                      !.log = Append(c.log, ReadEvent("Walk", "desired"))]

\* fix has applied every update: Reconcile returns.
Return(c) ==
  IF ~(c.pc = "fix" /\ c.idx > Len(c.updates)) THEN c
  ELSE [c EXCEPT !.pc = "done"]

\* Reconcile(current, desired, verbose): the call starts with desired.Walk.
Reconcile(c) ==
  [c EXCEPT !.pc = "walkDesired", !.todo = DOMAIN c.desired, !.updates = <<>>,
            !.idx = 0, !.cur0 = c.current, !.pass = c.pass + 1,
            !.log = <<ReadEvent("Walk", "desired")>>]

\* The caller calls Reconcile again with the same stores.
Again(c) ==
  IF ~(c.pc = "done" /\ c.pass < MaxPasses) THEN c
  ELSE Reconcile(c)

Init ==
  \E cur \in Stores, des \in Stores :
    /\ Cardinality(DOMAIN cur) + Cardinality(DOMAIN des) <= MaxEntries
    /\ LET c == Reconcile([current |-> cur, desired |-> des, cur0 |-> cur, orig |-> cur,
                           pass |-> 0,
                           pc |-> "idle", todo |-> {}, updates |-> <<>>, idx |-> 0,
                           log |-> <<>>])
       IN /\ current = [vb \in Verbose |-> c.current]
          /\ desired = [vb \in Verbose |-> c.desired]
          /\ cur0 = [vb \in Verbose |-> c.cur0]
          /\ orig = [vb \in Verbose |-> c.orig]
          /\ pass = [vb \in Verbose |-> c.pass]
          /\ pc = [vb \in Verbose |-> c.pc]
          /\ todo = [vb \in Verbose |-> c.todo]
          /\ updates = [vb \in Verbose |-> c.updates]
          /\ idx = [vb \in Verbose |-> c.idx]
          /\ log = [vb \in Verbose |-> c.log]
    /\ argA = Nil /\ argB = Nil /\ ret = NotCalled
    /\ guarded = FALSE /\ holder = {} /\ ended = <<>>

WalkDesired ==
  \E key \in Keys :
    /\ \E vb \in Verbose : pc[vb] = "walkDesired" /\ key \in todo[vb]
    /\ Install([vb \in Verbose |-> VisitDesired(Call(vb), key)])

WalkDesiredDone ==
  /\ \E vb \in Verbose : pc[vb] = "walkDesired" /\ todo[vb] = {}
  /\ Install([vb \in Verbose |-> EndWalkDesired(Call(vb))])

WalkCurrent ==
  \E key \in Keys :
    /\ \E vb \in Verbose : pc[vb] = "walkCurrent" /\ key \in todo[vb]
    /\ Install([vb \in Verbose |-> VisitCurrent(Call(vb), key)])

WalkCurrentDone ==
  /\ \E vb \in Verbose : pc[vb] = "walkCurrent" /\ todo[vb] = {}
  /\ Install([vb \in Verbose |-> EndWalkCurrent(Call(vb))])

Fix ==
  /\ \E vb \in Verbose : pc[vb] = "fix" /\ idx[vb] <= Len(updates[vb])
  /\ \E fault \in BOOLEAN :
       Install([vb \in Verbose |-> FixStep(Call(vb), vb, fault)])

FixDone ==
  /\ \E vb \in Verbose : pc[vb] = "fix" /\ idx[vb] > Len(updates[vb])
  /\ Install([vb \in Verbose |-> Return(Call(vb))])

ReconcileAgain ==
  /\ \E vb \in Verbose : pc[vb] = "done" /\ pass[vb] < MaxPasses
  /\ Install([vb \in Verbose |-> Again(Call(vb))])

Next ==
  \/ WalkDesired
  \/ WalkDesiredDone
  \/ WalkCurrent
  \/ WalkCurrentDone
  \/ Fix
  \/ FixDone
  \/ ReconcileAgain

Spec == Init /\ [][Next]_vars

\* The calls are synchronous and nothing suspends them: a step that can be
\* taken is taken.
FairSpec == Spec /\ WF_vars(Next)

(***************************************************************************)
(* compare on its own.  The arguments are the values of the stores and:    *)
(* a second value without checksum, a value that differs from another but  *)
(* has the same checksum, one with an empty checksum, and one with a       *)
(* 1-byte checksum in a backing array of 5.                                *)
(***************************************************************************)
CompareValues ==
  Values \cup
    { Plain(2),
      Summed(4, <<1, 2, 3, 4, 5>>, 5),
      Summed(5, <<>>, 0),
      Summed(6, <<7, 0, 0, 0, 0>>, 1) }

\* The stores of a state in which no call of Reconcile runs.
NoCalls ==
  /\ current = [vb \in Verbose |-> [x \in {} |-> Nil]]
  /\ desired = [vb \in Verbose |-> [x \in {} |-> Nil]]
  /\ cur0 = [vb \in Verbose |-> [x \in {} |-> Nil]]
  /\ orig = [vb \in Verbose |-> [x \in {} |-> Nil]]
  /\ pass = [vb \in Verbose |-> 0]
  /\ pc = [vb \in Verbose |-> "idle"]
  /\ todo = [vb \in Verbose |-> {}]
  /\ updates = [vb \in Verbose |-> <<>>]
  /\ idx = [vb \in Verbose |-> 0]
  /\ log = [vb \in Verbose |-> <<>>]
  /\ guarded = FALSE /\ holder = {} /\ ended = <<>>

InitCompare ==
  /\ NoCalls
  /\ argA \in CompareValues
  /\ argB \in CompareValues
  /\ ret = NotCalled

\* err := compare(a, b)
CompareCall ==
  /\ ~ret.called
  /\ ret' = [called |-> TRUE,
             panic |-> compare(argA, argB).panic,
             err |-> compare(argA, argB).err,
             sums |-> compareSums(argA, argB)]
  /\ UNCHANGED <<current, desired, cur0, orig, pass, pc, todo, updates, idx, log,
                 argA, argB, guarded, holder, ended>>

NextCompare == CompareCall

SpecCompare == InitCompare /\ [][NextCompare]_vars

(***************************************************************************)
(* Two calls, Reconcile(current, desired[TRUE], TRUE) and                  *)
(* Reconcile(current, desired[FALSE], FALSE), on one current and two       *)
(* different desired, each step of either call a step of its own.  The     *)
(* store carries out every method call at once and in full (Walk visits    *)
(* the keys the store held when Walk was called), and every mutation.  A   *)
(* guarding caller takes the lock before it calls Reconcile and releases   *)
(* it when the call ends, by return or by panic.                           *)
(***************************************************************************)
\* The values of the stores of the two calls: nil, a value without checksum,
\* one with a 5-byte checksum and one with a 1-byte checksum.
ConcValues ==
  { Nil, Plain(1), Summed(1, <<1, 2, 3, 4, 5>>, 5), Summed(3, <<7>>, 1) }

ConcStores == UNION { [D -> ConcValues] : D \in SUBSET Keys }

InitConc ==
  \E cur \in ConcStores, desT \in ConcStores, desF \in ConcStores, g \in BOOLEAN :
    /\ desT # desF
    /\ Cardinality(DOMAIN cur) + Cardinality(DOMAIN desT)
         + Cardinality(DOMAIN desF) <= MaxEntries
    /\ current = [vb \in Verbose |-> cur]
    /\ desired = [vb \in Verbose |-> IF vb THEN desT ELSE desF]
    /\ cur0 = [vb \in Verbose |-> cur]
    /\ orig = [vb \in Verbose |-> cur]
    /\ pass = [vb \in Verbose |-> 0]
    /\ pc = [vb \in Verbose |-> "idle"]
    /\ todo = [vb \in Verbose |-> {}]
    /\ updates = [vb \in Verbose |-> <<>>]
    /\ idx = [vb \in Verbose |-> 0]
    /\ log = [vb \in Verbose |-> <<>>]
    /\ argA = Nil /\ argB = Nil /\ ret = NotCalled
    /\ guarded = g /\ holder = {} /\ ended = <<>>

\* The call has ended: it has returned, or a panic has left it.
Ended(c) == c.pc \in {"done", "fault", "panic"}

\* A step of the call p that takes it to r: the other call sees what the
\* step made of current; a call that ends is noted and gives up the lock.
InstallOne(p, r) ==
  /\ InstallCalls([vb \in Verbose |->
        IF vb = p THEN r ELSE [Call(vb) EXCEPT !.current = r.current]])
  /\ ended' = IF Ended(r) THEN Append(ended, p) ELSE ended
  /\ holder' = IF Ended(r) THEN holder \ {p} ELSE holder
  /\ UNCHANGED <<argA, argB, ret, guarded>>

\* mu.Lock(); Reconcile(current, desired, verbose)
ConcReconcile(p) ==
  /\ pc[p] = "idle"
  /\ guarded => holder = {}
  /\ InstallCalls([vb \in Verbose |->
        IF vb = p THEN Reconcile(Call(vb)) ELSE Call(vb)])
  /\ holder' = IF guarded THEN holder \cup {p} ELSE holder
  /\ UNCHANGED <<argA, argB, ret, guarded, ended>>

ConcWalkDesired(p) ==
  \E key \in Keys :
    /\ pc[p] = "walkDesired" /\ key \in todo[p]
    /\ InstallOne(p, VisitDesired(Call(p), key))

ConcWalkDesiredDone(p) ==
  /\ pc[p] = "walkDesired" /\ todo[p] = {}
  /\ InstallOne(p, EndWalkDesired(Call(p)))

ConcWalkCurrent(p) ==
  \E key \in Keys :
    /\ pc[p] = "walkCurrent" /\ key \in todo[p]
    /\ InstallOne(p, VisitCurrent(Call(p), key))

ConcWalkCurrentDone(p) ==
  /\ pc[p] = "walkCurrent" /\ todo[p] = {}
  /\ InstallOne(p, EndWalkCurrent(Call(p)))

ConcFix(p) ==
  /\ pc[p] = "fix" /\ idx[p] <= Len(updates[p])
  /\ InstallOne(p, FixStep(Call(p), p, FALSE))

ConcFixDone(p) ==
  /\ pc[p] = "fix" /\ idx[p] > Len(updates[p])
  /\ InstallOne(p, Return(Call(p)))

NextConc ==
  \E p \in Verbose :
    \/ ConcReconcile(p)
    \/ ConcWalkDesired(p)
    \/ ConcWalkDesiredDone(p)
    \/ ConcWalkCurrent(p)
    \/ ConcWalkCurrentDone(p)
    \/ ConcFix(p)
    \/ ConcFixDone(p)

SpecConc == InitConc /\ [][NextConc]_vars

(***************************************************************************)
(* Vocabulary of the properties.                                           *)
(***************************************************************************)
IsMutation(e) == e.op \in {"Add", "Update", "Delete"}

IsTrace(e) == e.op = "Printf"

\* The mutation calls a call has made on current, and its trace lines.
Calls(l) == SelectSeq(l, IsMutation)

TraceLines(l) == SelectSeq(l, IsTrace)

\* diff has returned its list.
DiffReturned(vb) == pc[vb] \in {"fix", "done", "fault"}

\* The positions of the actions for a key in a list.
ActionsFor(us, key) == {i \in 1..Len(us) : us[i].key = key}

\* The comparator's notion of equal values: by checksum when both have one.
SameValue(a, b) ==
  IF a.kind = "sum" /\ b.kind = "sum"
  THEN SubSeq(a.buf, 1, a.len) = SubSeq(b.buf, 1, b.len)
  ELSE a = b

\* A store that holds no nil value.
NoNil(s) == \A key \in DOMAIN s : s[key] # Nil

\* What a list of actions makes of a store that reflects every mutation.
RECURSIVE ApplyUpdates(_, _)
ApplyUpdates(s, us) ==
  IF us = <<>> THEN s
  ELSE LET u == Head(us)
           t == CASE u.state = 0 -> [x \in DOMAIN s \cup {u.key} |->
                                       IF x = u.key THEN u.v ELSE s[x]]
                  [] u.state = 2 -> [x \in DOMAIN s \cup {u.key} |->
                                       IF x = u.key THEN u.v ELSE s[x]]
                  [] u.state = 1 -> [x \in DOMAIN s \ {u.key} |-> s[x]]
       IN ApplyUpdates(t, Tail(us))

(***************************************************************************)
(* C1: for every key in desired and not in current, diff returns a list    *)
(* (it does not panic) with exactly one action for the key, a Create with  *)
(* desired's value, and when Reconcile has returned current holds          *)
(* desired's value for the key.                                            *)
(***************************************************************************)
C1_MissingKeyCreated ==
  \A vb \in Verbose : \A key \in Keys :
    (key \in DOMAIN desired[vb] /\ key \notin DOMAIN cur0[vb]) =>
      /\ pc[vb] # "panic"
      /\ DiffReturned(vb) =>
           /\ Cardinality(ActionsFor(updates[vb], key)) = 1
           /\ \A i \in ActionsFor(updates[vb], key) :
                updates[vb][i].state = 0 /\ updates[vb][i].v = desired[vb][key]
      /\ pc[vb] = "done" => Get(current[vb], key) = desired[vb][key]

(***************************************************************************)
(* C2: for every key in current and not in desired, diff returns a list    *)
(* (it does not panic) with exactly one action for the key, a Delete with  *)
(* a nil value, and when Reconcile has returned current no longer holds    *)
(* the key.                                                                *)
(***************************************************************************)
C2_ExtraKeyDeleted ==
  \A vb \in Verbose : \A key \in Keys :
    (key \in DOMAIN cur0[vb] /\ key \notin DOMAIN desired[vb]) =>
      /\ pc[vb] # "panic"
      /\ DiffReturned(vb) =>
           /\ Cardinality(ActionsFor(updates[vb], key)) = 1
           /\ \A i \in ActionsFor(updates[vb], key) :
                updates[vb][i].state = 1 /\ updates[vb][i].v = Nil
      /\ pc[vb] = "done" => key \notin DOMAIN current[vb]

(***************************************************************************)
(* C3: for every key in both stores whose values compare unequal, diff     *)
(* returns a list (it does not panic) with exactly one action for the key, *)
(* an Update with desired's value and a non-empty reason, and when         *)
(* Reconcile has returned current holds desired's value for the key.       *)
(* Stated for values that are not nil.                                     *)
(***************************************************************************)
C3_UnequalKeyUpdated ==
  \A vb \in Verbose : \A key \in Keys :
    (key \in DOMAIN cur0[vb] /\ key \in DOMAIN desired[vb]
       /\ cur0[vb][key] # Nil /\ desired[vb][key] # Nil
       /\ ~SameValue(cur0[vb][key], desired[vb][key])) =>
      /\ pc[vb] # "panic"
      /\ DiffReturned(vb) =>
           /\ Cardinality(ActionsFor(updates[vb], key)) = 1
           /\ \A i \in ActionsFor(updates[vb], key) :
                /\ updates[vb][i].state = 2
                /\ updates[vb][i].v = desired[vb][key]
                /\ updates[vb][i].why.fmt # ""
      /\ pc[vb] = "done" => Get(current[vb], key) = desired[vb][key]

\* The frame of C4 for one key: no action, no mutation, the entry as it was.
Untouched(vb, key) ==
  /\ ActionsFor(updates[vb], key) = {}
  /\ \A p \in 1..Len(log[vb]) : IsMutation(log[vb][p]) => log[vb][p].key # key
  /\ key \in DOMAIN current[vb]
  /\ current[vb][key] = cur0[vb][key]

(***************************************************************************)
(* C4 as stated: for every key in both stores whose values compare equal,  *)
(* there is no action for the key, fix calls no mutation for it, and       *)
(* current's entry for it stays what it was.                               *)
(***************************************************************************)
C4_EqualKeyUntouched_Orig ==
  \A vb \in Verbose : \A key \in Keys :
    (key \in DOMAIN cur0[vb] /\ key \in DOMAIN desired[vb]
       /\ SameValue(cur0[vb][key], desired[vb][key])) =>
      Untouched(vb, key)

(***************************************************************************)
(* C4 amended: for every key in both stores whose values are not nil and   *)
(* compare equal, there is no action for the key, fix calls no mutation    *)
(* for it, and current's entry for it stays what it was.                   *)
(***************************************************************************)
C4_EqualKeyUntouched ==
  \A vb \in Verbose : \A key \in Keys :
    (key \in DOMAIN cur0[vb] /\ key \in DOMAIN desired[vb]
       /\ cur0[vb][key] # Nil
       /\ SameValue(cur0[vb][key], desired[vb][key])) =>
      Untouched(vb, key)

\* Reconcile has returned after mutating another key and left alone a key
\* whose two values have the same checksum; no value is nil.
C4_Witness ==
  /\ pc[TRUE] = "done"
  /\ NoNil(cur0[TRUE]) /\ NoNil(desired[TRUE])
  /\ Len(Calls(log[TRUE])) >= 1
  /\ \E key \in DOMAIN cur0[TRUE] \cap DOMAIN desired[TRUE] :
       /\ cur0[TRUE][key] # Nil
       /\ cur0[TRUE][key].kind = "sum"
       /\ SameValue(cur0[TRUE][key], desired[TRUE][key])

(***************************************************************************)
(* C5: in diff's list every Create and every Update comes before every     *)
(* Delete, and among the mutation calls of one Reconcile no Add and no     *)
(* Update comes after a Delete.                                            *)
(***************************************************************************)
C5_DeletesLast ==
  \A vb \in Verbose :
    /\ \A i, j \in 1..Len(updates[vb]) :
         (updates[vb][i].state = 1 /\ updates[vb][j].state \in {0, 2}) => j < i
    /\ LET cs == Calls(log[vb])
       IN \A i, j \in 1..Len(cs) :
            (cs[i].op = "Delete" /\ cs[j].op \in {"Add", "Update"}) => j < i

\* A call on stores without nil values that has created or updated, then deleted.
C5_Witness ==
  /\ pc[TRUE] = "done"
  /\ NoNil(cur0[TRUE]) /\ NoNil(desired[TRUE])
  /\ Len(updates[TRUE]) = 3
  /\ \E i, j \in 1..Len(log[TRUE]) :
       /\ i < j
       /\ log[TRUE][i].op \in {"Add", "Update"}
       /\ log[TRUE][j].op = "Delete"

\* The two statements of C6 for one call.
Converged(vb) ==
  /\ pass[vb] >= 2 => (Len(updates[vb]) = 0 /\ Len(Calls(log[vb])) = 0)
  /\ cur0[vb] = desired[vb] => Len(updates[vb]) = 0

(***************************************************************************)
(* C6 as stated: on a store that reflects every mutation, once Reconcile   *)
(* has returned a second Reconcile finds an empty diff and mutates         *)
(* nothing; and when current and desired have the same content the first   *)
(* diff is empty.                                                          *)
(***************************************************************************)
C6_SinglePassConverges_Orig ==
  \A vb \in Verbose : Converged(vb)

(***************************************************************************)
(* C6 amended: the same, for a desired that stores no nil value.           *)
(***************************************************************************)
C6_SinglePassConverges ==
  \A vb \in Verbose : NoNil(desired[vb]) => Converged(vb)

\* A second Reconcile has returned after the first one created and deleted.
C6_Witness ==
  /\ pass[TRUE] = 2
  /\ pc[TRUE] = "done"
  /\ NoNil(desired[TRUE])
  /\ DOMAIN desired[TRUE] \ DOMAIN orig[TRUE] # {}
  /\ DOMAIN orig[TRUE] \ DOMAIN desired[TRUE] # {}
  /\ current[TRUE] = desired[TRUE]

(***************************************************************************)
(* C7: diff never panics; when two values of a key both have checksums and *)
(* the checksums differ, whatever their length, the list diff returns has  *)
(* an Update for the key.                                                  *)
(***************************************************************************)
C7_MismatchIsNotAFault ==
  \A vb \in Verbose :
    /\ pc[vb] # "panic"
    /\ DiffReturned(vb) =>
         \A key \in DOMAIN cur0[vb] \cap DOMAIN desired[vb] :
           (cur0[vb][key].kind = "sum" /\ desired[vb][key].kind = "sum"
              /\ ~SameValue(cur0[vb][key], desired[vb][key])) =>
             \E i \in ActionsFor(updates[vb], key) : updates[vb][i].state = 2

(***************************************************************************)
(* C8: when the store fails the mutation of action i, Reconcile ends with  *)
(* that fault: current is what actions 1..i-1 made of it, the failed call  *)
(* is the last mutation call, and the call never goes on or returns.       *)
(***************************************************************************)
C8_FaultStopsFix ==
  \A vb \in Verbose :
    LET cs == Calls(log[vb])
    IN /\ (\E p \in 1..Len(cs) : ~cs[p].ok) => pc[vb] = "fault"
       /\ pc[vb] = "fault" =>
            /\ idx[vb] \in 1..Len(updates[vb])
            /\ Len(cs) = idx[vb]
            /\ ~cs[idx[vb]].ok
            /\ cs[idx[vb]].key = updates[vb][idx[vb]].key
            /\ \A p \in 1..(idx[vb] - 1) : cs[p].ok
            /\ current[vb] = ApplyUpdates(cur0[vb], SubSeq(updates[vb], 1, idx[vb] - 1))

\* The second of three actions has failed: the first stays applied.
C8_Witness ==
  /\ pc[TRUE] = "fault"
  /\ NoNil(cur0[TRUE]) /\ NoNil(desired[TRUE])
  /\ idx[TRUE] = 2
  /\ Len(updates[TRUE]) = 3
  /\ current[TRUE] # cur0[TRUE]

(***************************************************************************)
(* C9: with verbose on, the event right before every mutation call is the  *)
(* trace line of that action (its key, kind label and reason), the trace   *)
(* lines are those of the actions in list order, and when the mutation of  *)
(* action i has failed the lines of actions 1..i are there.                *)
(***************************************************************************)
C9_TracedBeforeApplied ==
  LET l == log[TRUE]
      us == updates[TRUE]
      ts == TraceLines(l)
      cs == Calls(l)
  IN /\ \A p \in 1..Len(l) :
          IsMutation(l[p]) => (p > 1 /\ IsTrace(l[p - 1]) /\ l[p - 1].key = l[p].key)
     /\ Len(ts) = Len(cs)
     /\ Len(ts) <= Len(us)
     /\ \A i \in 1..Len(ts) :
          /\ i <= Len(us)
          /\ ts[i].key = us[i].key
          /\ ts[i].state = String(us[i].state)
          /\ ts[i].why = us[i].why
     /\ pc[TRUE] = "fault" => Len(ts) = idx[TRUE]

\* The third action's mutation has failed after three trace lines.
C9_Witness ==
  /\ pc[TRUE] = "fault"
  /\ NoNil(cur0[TRUE]) /\ NoNil(desired[TRUE])
  /\ idx[TRUE] = 3
  /\ Len(TraceLines(log[TRUE])) = 3

(***************************************************************************)
(* C10: the call with verbose on and the call with verbose off make the    *)
(* same mutation calls (operation, key, value) in the same order, are at   *)
(* the same place and leave current with the same content.                 *)
(***************************************************************************)
C10_VerboseIsObservabilityOnly ==
  /\ Calls(log[TRUE]) = Calls(log[FALSE])
  /\ current[TRUE] = current[FALSE]
  /\ pc[TRUE] = pc[FALSE]

\* Both calls have returned after two mutations, one of them with two trace lines.
C10_Witness ==
  /\ pc[TRUE] = "done"
  /\ NoNil(cur0[TRUE]) /\ NoNil(desired[TRUE])
  /\ pc[FALSE] = "done"
  /\ Len(Calls(log[FALSE])) = 2
  /\ Len(TraceLines(log[TRUE])) = 2
  /\ Len(TraceLines(log[FALSE])) = 0
  /\ current[FALSE] # cur0[FALSE]

\* The trace lines of the verbose call carry the labels given by the three names.
Labelled(create, delete, update) ==
  LET ts == TraceLines(log[TRUE])
      us == updates[TRUE]
  IN \A i \in 1..Len(ts) :
       /\ i <= Len(us)
       /\ ts[i].state \in {create, delete, update}
       /\ us[i].state = 0 => ts[i].state = create
       /\ us[i].state = 1 => ts[i].state = delete
       /\ us[i].state = 2 => ts[i].state = update

(***************************************************************************)
(* C11 as stated: every trace line carries one of the labels Create,       *)
(* Delete, Update: "Create" for a Create action, "Delete" for a Delete,    *)
(* "Update" for an Update.                                                 *)
(***************************************************************************)
C11_TraceLabels_Orig == Labelled("Create", "Delete", "Update")

(***************************************************************************)
(* C11 amended: every trace line carries one of the labels Add, Delete,    *)
(* Update: "Add" for a Create action, "Delete" for a Delete, "Update" for  *)
(* an Update.                                                              *)
(***************************************************************************)
C11_TraceLabels == Labelled("Add", "Delete", "Update")

\* The verbose call has traced a Create, an Update and a Delete.
C11_Witness ==
  /\ pc[TRUE] = "done"
  /\ LET ts == TraceLines(log[TRUE])
     IN \E i, j, k \in 1..Len(ts) :
          /\ ts[i].state = "Add"
          /\ ts[j].state = "Update"
          /\ ts[k].state = "Delete"

\* A key that current stores and that desired stores with a nil value.
NilInDesired(vb, key) ==
  /\ key \in DOMAIN cur0[vb]
  /\ key \in DOMAIN desired[vb]
  /\ desired[vb][key] = Nil

(***************************************************************************)
(* C13 as stated: whatever the stores hold, nil values included, diff's    *)
(* list has at most one action per key.                                    *)
(***************************************************************************)
C13_OneActionPerKey_Orig ==
  \A vb \in Verbose : \A key \in Keys :
    Cardinality(ActionsFor(updates[vb], key)) <= 1

(***************************************************************************)
(* C13 amended: diff's list has at most one action for every key, except   *)
(* a key that current stores and that desired stores with a nil value.     *)
(***************************************************************************)
C13_OneActionPerKey ==
  \A vb \in Verbose : \A key \in Keys :
    ~NilInDesired(vb, key) => Cardinality(ActionsFor(updates[vb], key)) <= 1

\* diff has returned three actions for three keys, one of them stored with a
\* nil value in current.
C13_Witness ==
  /\ DiffReturned(TRUE)
  /\ Len(updates[TRUE]) = 3
  /\ \A key \in Keys : Cardinality(ActionsFor(updates[TRUE], key)) = 1
  /\ \E key \in DOMAIN cur0[TRUE] : cur0[TRUE][key] = Nil

\* A Get or a Walk.
IsRead(e) == e.op \in {"Get", "Walk"}

\* The number of actions whose mutation fix has called.
Dispatched(vb) ==
  CASE pc[vb] = "fix" -> idx[vb] - 1
    [] pc[vb] = "fault" -> idx[vb]
    [] pc[vb] = "done" -> Len(updates[vb])
    [] OTHER -> 0

(***************************************************************************)
(* C14: the mutation calls of fix are the actions it has gone through, one *)
(* call per action and in list order: Add(key, value) for a Create,        *)
(* Update(key, value) for an Update, Delete(key) for a Delete, all on      *)
(* current; and once fix has started no Get and no Walk is called.         *)
(***************************************************************************)
C14_OneMutationPerAction ==
  \A vb \in Verbose :
    LET cs == Calls(log[vb])
        us == updates[vb]
        l == log[vb]
    IN /\ Len(cs) = Dispatched(vb)
       /\ \A i \in 1..Len(cs) :
            /\ i <= Len(us)
            /\ cs[i].on = "current"
            /\ cs[i].key = us[i].key
            /\ us[i].state = 0 => (cs[i].op = "Add" /\ cs[i].v = us[i].v)
            /\ us[i].state = 2 => (cs[i].op = "Update" /\ cs[i].v = us[i].v)
            /\ us[i].state = 1 => cs[i].op = "Delete"
       /\ \A p, q \in 1..Len(l) :
            (p < q /\ (IsMutation(l[p]) \/ IsTrace(l[p]))) => ~IsRead(l[q])

\* fix has gone through an Update and a Delete on stores without nil.
C14_Witness ==
  /\ pc[FALSE] = "done"
  /\ NoNil(cur0[FALSE]) /\ NoNil(desired[FALSE])
  /\ Len(Calls(log[FALSE])) = 2
  /\ updates[FALSE][1].state = 2
  /\ updates[FALSE][2].state = 1

\* One step of a walk leaves the list as it is or puts the action of the
\* entry it visits at the end of it.
AppendsVisited(vb) ==
  \/ updates'[vb] = updates[vb]
  \/ /\ Len(updates'[vb]) = Len(updates[vb]) + 1
     /\ SubSeq(updates'[vb], 1, Len(updates[vb])) = updates[vb]
     /\ updates'[vb][Len(updates'[vb])].key \in todo[vb] \ todo'[vb]
     /\ pc[vb] = "walkDesired" => updates'[vb][Len(updates'[vb])].state \in {0, 2}
     /\ pc[vb] = "walkCurrent" => updates'[vb][Len(updates'[vb])].state = 1

(***************************************************************************)
(* C15: diff's list is the actions of desired's walk followed by those of  *)
(* current's walk, each in the order its Walk visits the entries: every    *)
(* visit of a walk adds its action, if it has one, at the end of the list. *)
(***************************************************************************)
C15_WalkOrder ==
  [][\A vb \in Verbose :
       pc[vb] \in {"walkDesired", "walkCurrent"} => AppendsVisited(vb)]_vars

\* diff has returned two actions of desired's walk, the larger key first,
\* and then one of current's walk.
C15_Witness ==
  /\ DiffReturned(TRUE)
  /\ Len(updates[TRUE]) = 3
  /\ updates[TRUE][1].state \in {0, 2}
  /\ updates[TRUE][2].state \in {0, 2}
  /\ updates[TRUE][3].state = 1
  /\ updates[TRUE][1].key > updates[TRUE][2].key

\* What C16 says of one state: only reads on desired, every read before the
\* first mutation, and during diff no mutation and current as it was.
ReadsThenWrites(vb) ==
  LET l == log[vb]
  IN /\ \A p \in 1..Len(l) : l[p].on = "desired" => IsRead(l[p])
     /\ \A p, q \in 1..Len(l) : (p < q /\ IsMutation(l[p])) => ~IsRead(l[q])
     /\ pc[vb] \in {"walkDesired", "walkCurrent", "panic"} =>
          (Len(Calls(l)) = 0 /\ current[vb] = cur0[vb])

(***************************************************************************)
(* C16: during one Reconcile diff calls only Get and Walk, every Get and   *)
(* Walk comes before the first mutation, so that the actions are computed  *)
(* from current as it was when the call started; no mutation is called on  *)
(* desired, and desired's content never changes.                           *)
(***************************************************************************)
C16_DetectThenFix ==
  /\ [](\A vb \in Verbose : ReadsThenWrites(vb))
  /\ [][desired' = desired]_vars

\* Reconcile has returned after reading both stores and mutating current twice.
C16_Witness ==
  /\ pc[TRUE] = "done"
  /\ NoNil(cur0[TRUE]) /\ NoNil(desired[TRUE])
  /\ Len(Calls(log[TRUE])) = 2
  /\ Len(SelectSeq(log[TRUE], IsRead)) = 5
  /\ current[TRUE] # cur0[TRUE]

\* The entries desired.Walk has visited so far.
VisitedOfDesired(vb) ==
  IF pc[vb] \in {"walkDesired", "panic"}
  THEN DOMAIN desired[vb] \ todo[vb]
  ELSE DOMAIN desired[vb]

IsCompare(e) == e.op = "compare"

(***************************************************************************)
(* C19: a key stored with a nil value is handled like a missing key.  For  *)
(* a key that desired's Walk visits and for which current.Get returns nil, *)
(* diff emits a Create and no Update, and compare is called only for the   *)
(* visited keys for which current.Get is not nil; for a key that current's *)
(* Walk visits and for which desired.Get returns nil, diff emits a Delete. *)
(* Both hold whether or not the other store holds the key.                 *)
(***************************************************************************)
C19_NilIsAbsent ==
  \A vb \in Verbose :
    /\ Len(SelectSeq(log[vb], IsCompare)) =
         Cardinality({key \in VisitedOfDesired(vb) : Get(cur0[vb], key) # Nil})
    /\ DiffReturned(vb) =>
         /\ \A key \in DOMAIN desired[vb] :
              Get(cur0[vb], key) = Nil =>
                /\ \E i \in ActionsFor(updates[vb], key) : updates[vb][i].state = 0
                /\ \A i \in ActionsFor(updates[vb], key) : updates[vb][i].state # 2
         /\ \A key \in DOMAIN cur0[vb] :
              Get(desired[vb], key) = Nil =>
                \E i \in ActionsFor(updates[vb], key) : updates[vb][i].state = 1

\* diff has returned a Create for a key that current stores with a nil value
\* and desired with another one, and a Delete for a key desired does not hold.
C19_Witness ==
  /\ DiffReturned(TRUE)
  /\ \E key \in DOMAIN cur0[TRUE] \cap DOMAIN desired[TRUE] :
       /\ cur0[TRUE][key] = Nil
       /\ desired[TRUE][key] # Nil
       /\ \E i \in ActionsFor(updates[TRUE], key) : updates[TRUE][i].state = 0
  /\ \E key \in DOMAIN cur0[TRUE] \ DOMAIN desired[TRUE] :
       \E i \in ActionsFor(updates[TRUE], key) : updates[TRUE][i].state = 1

IsWalkOfDesired(e) == e.op = "Walk" /\ e.on = "desired"

IsWalkOfCurrent(e) == e.op = "Walk" /\ e.on = "current"

\* The mutation calls of a call for one key.
MutationsOf(vb, key) ==
  {p \in 1..Len(log[vb]) : IsMutation(log[vb][p]) /\ log[vb][p].key = key}

\* One call walks each store at most once, and exactly once when it returns.
OneDiffPass(vb) ==
  /\ Len(SelectSeq(log[vb], IsWalkOfDesired)) <= 1
  /\ Len(SelectSeq(log[vb], IsWalkOfCurrent)) <= 1
  /\ pc[vb] = "done" =>
       /\ Len(SelectSeq(log[vb], IsWalkOfDesired)) = 1
       /\ Len(SelectSeq(log[vb], IsWalkOfCurrent)) = 1

\* Every call has ended: it has returned, or a panic or a fault has left it.
AllEnded == \A vb \in Verbose : pc[vb] \in {"done", "fault", "panic"}

Match(r) == r.called /\ ~r.panic /\ r.err = NilError

Mismatch(r) == r.called /\ ~r.panic /\ r.err # NilError

\* The strategy of compare, wherever the call ends with a result or not:
\* match exactly on equal checksums when both values have one, and exactly
\* on deep equality, with no checksum computed, otherwise.
CompareByCapability ==
  ret.called =>
    IF IsChecksumed(argA) /\ IsChecksumed(argB)
    THEN Match(ret) <=> (Sum(argA) = Sum(argB))
    ELSE /\ Match(ret) <=> DeepEqual(argA, argB)
         /\ ret.sums = <<>>

(***************************************************************************)
(* C12: every call of compare ends with one of two results, match or       *)
(* mismatch; when both values have a checksum the result is match exactly  *)
(* when the checksums are equal, whether or not the values are deeply      *)
(* equal; otherwise it is match exactly when the values are deeply equal,  *)
(* and no checksum is computed.                                            *)
(***************************************************************************)
C12_StrategyByCapability ==
  ret.called =>
    /\ Match(ret) \/ Mismatch(ret)
    /\ IF IsChecksumed(argA) /\ IsChecksumed(argB)
       THEN /\ Match(ret) <=> (Sum(argA) = Sum(argB))
            /\ Mismatch(ret) <=> (Sum(argA) # Sum(argB))
       ELSE /\ Match(ret) <=> DeepEqual(argA, argB)
            /\ Mismatch(ret) <=> ~DeepEqual(argA, argB)
            /\ ret.sums = <<>>

\* Two values that differ and have the same checksum were found to match.
CompareMatchedUnequalValues ==
  /\ Match(ret)
  /\ IsChecksumed(argA) /\ IsChecksumed(argB)
  /\ ~DeepEqual(argA, argB)

\* Two checksums differ and one has a capacity under 5: no result.
CompareGaveNoResult ==
  /\ ret.called /\ ret.panic
  /\ Sum(argA) # Sum(argB)

(***************************************************************************)
(* C18.                                                                    *)
(***************************************************************************)
\* current has for every key what the desired has, as Get and compare see it.
Matches(s, d) == \A key \in Keys : SameValue(Get(s, key), Get(d, key))

\* Both calls have ended.
BothEnded == Len(ended) = 2

\* The guarded calls apart from the panic of compare: once both have ended
\* and the last one returned, current matches the desired of the last one.
LockSufficesOnReturn ==
  (guarded /\ BothEnded /\ pc[ended[2]] = "done") =>
    Matches(current[ended[2]], desired[ended[2]])

\* A guarded call runs alone: the other call has not started or has ended.
LockExcludes ==
  guarded =>
    \A p \in Verbose :
      p \in holder => \A q \in Verbose \ {p} : pc[q] = "idle" \/ Ended(Call(q))

UnguardedMatchesNeither ==
  /\ ~guarded /\ BothEnded
  /\ \A vb \in Verbose : pc[vb] = "done"
  /\ \A vb \in Verbose : ~Matches(current[vb], desired[vb])

\* The same, between two desired without nil and without checksums.
UnguardedPlainMatchesNeither ==
  /\ UnguardedMatchesNeither
  /\ \A vb \in Verbose : \A key \in DOMAIN desired[vb] : desired[vb][key].kind = "plain"

\* Under the lock the call that ran last ended in the panic of compare.
GuardedLastPanicked ==
  /\ guarded /\ BothEnded
  /\ pc[ended[2]] = "panic"
  /\ ~Matches(current[ended[2]], desired[ended[2]])

====
